---- MODULE Spec2Model ----
(***************************************************************************)
(* Model of weather.py: a command-line tool that resolves an IPv4 address, *)
(* geolocates it, queries OpenWeatherMap and prints one coloured line.     *)
(*                                                                         *)
(* A Python string is modelled as a sequence of characters, each character *)
(* a one-element TLA+ string; the non-ASCII characters are named by code   *)
(* point ("U00B0" is the degree sign, "U2600".."U2603" the weather icons). *)
(***************************************************************************)
EXTENDS Integers, Sequences, FiniteSets, TLC

VARIABLES pc, argv, args, ip_address, match, conditions, stdout, stderr,
          exit_status, raised, events, response, fn_in, fn_out

vars == <<pc, argv, args, ip_address, match, conditions, stdout, stderr,
          exit_status, raised, events, response, fn_in, fn_out>>

(***************************************************************************)
(* Characters and integers                                                 *)
(***************************************************************************)
DigitChars == <<"0", "1", "2", "3", "4", "5", "6", "7", "8", "9">>

IsDigit(c) == \E i \in 1..10 : DigitChars[i] = c

DigitVal(c) == (CHOOSE i \in 1..10 : DigitChars[i] = c) - 1

UpperChars == <<"A", "B", "C", "D", "E", "F", "G", "H", "I", "J", "K", "L", "M",
                "N", "O", "P", "Q", "R", "S", "T", "U", "V", "W", "X", "Y", "Z">>

LowerChars == <<"a", "b", "c", "d", "e", "f", "g", "h", "i", "j", "k", "l", "m",
                "n", "o", "p", "q", "r", "s", "t", "u", "v", "w", "x", "y", "z">>

\* unicode.lower() on one character
LowerChar(c) ==
    IF \E i \in 1..26 : UpperChars[i] = c
    THEN LowerChars[CHOOSE i \in 1..26 : UpperChars[i] = c]
    ELSE c

\* unicode.lower()
Lower(s) == [i \in 1..Len(s) |-> LowerChar(s[i])]

RECURSIVE NatToChars(_)
\* the decimal digits of a natural number, as str(n) writes them
NatToChars(n) ==
    IF n < 10 THEN <<DigitChars[n + 1]>>
    ELSE NatToChars(n \div 10) \o <<DigitChars[(n % 10) + 1]>>

\* str(n) of a Python int
IntToChars(n) == IF n < 0 THEN <<"-">> \o NatToChars(-n) ELSE NatToChars(n)

RECURSIVE CharsToNat(_)
\* int() of a string of decimal digits
CharsToNat(s) ==
    IF Len(s) = 0 THEN 0
    ELSE 10 * CharsToNat(SubSeq(s, 1, Len(s) - 1)) + DigitVal(s[Len(s)])

\* int() of a match of -?\d+
CharsToInt(s) ==
    IF s[1] = "-" THEN -CharsToNat(SubSeq(s, 2, Len(s))) ELSE CharsToNat(s)

(***************************************************************************)
(* Icons (weather.py lines 20-23)                                          *)
(***************************************************************************)
SUN == "U2600"

CLOUDS == "U2601"

RAIN == "U2602"

SNOW == "U2603"

\* a Python value that is either a unicode string or an int
PyUnicode(s) == [type |-> "unicode", u |-> s, i |-> 0]

PyInt(n) == [type |-> "int", u |-> <<>>, i |-> n]

\* what "{}".format(v) writes for such a value
PyStr(v) == IF v.type = "int" THEN IntToChars(v.i) ELSE v.u

(***************************************************************************)
(* IPV4_RE and PublicIPAddress.validate                                    *)
(***************************************************************************)
\* s[i..i+l-1] matches (25[0-5]|2[0-4]\d|[0-1]?\d?\d)
OctetMatch(s, i, l) ==
    /\ i + l - 1 <= Len(s)
    /\ \A k \in i..(i + l - 1) : IsDigit(s[k])
    /\ \/ l = 3 /\ s[i] = "2" /\ s[i + 1] = "5" /\ DigitVal(s[i + 2]) <= 5
       \/ l = 3 /\ s[i] = "2" /\ DigitVal(s[i + 1]) <= 4
       \/ l = 3 /\ s[i] \in {"0", "1"}
       \/ l \in {1, 2}

\* Python's $ (no MULTILINE): the end of the string, or just before a newline
\* that is the last character of the string
EndAnchor(s, i) ==
    \/ i = Len(s) + 1
    \/ i = Len(s) /\ s[i] = "\n"

RECURSIVE DotOctets(_, _, _)
\* s from position i matches (\.octet){k}$
DotOctets(s, i, k) ==
    IF k = 0 THEN EndAnchor(s, i)
    ELSE /\ i <= Len(s)
         /\ s[i] = "."
         /\ \E l \in 1..3 : OctetMatch(s, i + 1, l) /\ DotOctets(s, i + 1 + l, k - 1)

\* IPV4_RE.match(s) is not None
IPV4_RE(s) == \E l \in 1..3 : OctetMatch(s, 1, l) /\ DotOctets(s, 1 + l, 3)

NoException == [kind |-> "none", text |-> "", arg |-> <<>>]

Exception(kind, text, arg) == [kind |-> kind, text |-> text, arg |-> arg]

\* PublicIPAddress.validate: [ret |-> True] or the exception it raises
validate(ip) ==
    IF ~IPV4_RE(ip)
    THEN [ret |-> FALSE,
          exc |-> Exception("IPAddressException", "Incorrect ip v4 address {}", ip)]
    ELSE [ret |-> TRUE, exc |-> NoException]

(***************************************************************************)
(* TextFormatter.output                                                    *)
(***************************************************************************)
\* u"Today it's {0}° {1} and {2}".format(temp, icon, conditions.lower())
output(context) ==
    <<"T", "o", "d", "a", "y", " ", "i", "t", "'", "s", " ">>
        \o PyStr(context.temp)
        \o <<"U00B0", " ">>
        \o PyStr(context.icon)
        \o <<" ", "a", "n", "d", " ">>
        \o Lower(context.conditions)

(***************************************************************************)
(* get_temperature_color                                                   *)
(***************************************************************************)
temp_color_map == <<<<40, "cyan">>, <<60, "blue">>, <<80, "yellow">>>>

\* the pattern without its optional sign: \d+ matches at position i of s
temperature_re_at_NoSign(s, i) == IsDigit(s[i])

\* -?\d+ matches at position i of s
temperature_re_at(s, i) ==
    \/ IsDigit(s[i])
    \/ s[i] = "-" /\ i + 1 <= Len(s) /\ IsDigit(s[i + 1])

RECURSIVE DigitsEnd(_, _)
\* the last position of the run of digits that starts at position i
DigitsEnd(s, i) ==
    IF i + 1 <= Len(s) /\ IsDigit(s[i + 1]) THEN DigitsEnd(s, i + 1) ELSE i

\* temperature_re.search(s): the leftmost match, digits taken greedily;
\* <<>> when there is none
temperature_re_search(s) ==
    IF \E i \in 1..Len(s) : temperature_re_at(s, i)
    THEN LET i == CHOOSE k \in 1..Len(s) :
                      /\ temperature_re_at(s, k)
                      /\ \A j \in 1..(k - 1) : ~temperature_re_at(s, j)
             d == IF s[i] = "-" THEN i + 1 ELSE i
         IN  SubSeq(s, i, DigitsEnd(s, d))
    ELSE <<>>

RECURSIVE ColorLoop_Strict(_, _)
\* the loop with the comparison "<" in place of "<="
ColorLoop_Strict(t, k) ==
    IF k > Len(temp_color_map) THEN "red"
    ELSE IF t < temp_color_map[k][1] THEN temp_color_map[k][2]
    ELSE ColorLoop_Strict(t, k + 1)

RECURSIVE ColorLoop(_, _)
\* for color in temp_color_map: if t <= color[0]: return color[1]; else 'red'
ColorLoop(t, k) ==
    IF k > Len(temp_color_map) THEN "red"
    ELSE IF t <= temp_color_map[k][1] THEN temp_color_map[k][2]
    ELSE ColorLoop(t, k + 1)

get_temperature_color(s) ==
    LET m == temperature_re_search(s)
    IN  IF m # <<>> THEN ColorLoop(CharsToInt(m), 1) ELSE "white"

(***************************************************************************)
(* OpenWeatherMap                                                          *)
(***************************************************************************)
MAPPING_UNITS == [fahrenheit |-> "imperial", celsius |-> "metric"]

\* the keys of the dictionary literal of ascii_icon, by value
IconTable ==
    [c \in {"01d", "01n"} |-> SUN]
        @@ [c \in {"02d", "02n", "03d", "03n", "04d", "04n"} |-> CLOUDS]
        @@ [c \in {"09d", "09n", "10d", "10n", "11d", "11n"} |-> RAIN]
        @@ [c \in {"13d", "13n"} |-> SNOW]

\* codes = defaultdict(int, {...}); return codes[code]: a missing key yields
\* int(), the integer 0
ascii_icon(code) ==
    IF code \in DOMAIN IconTable THEN PyUnicode(<<IconTable[code]>>) ELSE PyInt(0)

\* int(x) of a JSON number given in tenths: truncation towards zero
PyIntOfTenths(t10) == IF t10 >= 0 THEN t10 \div 10 ELSE -((-t10) \div 10)

Returned(v) == [ret |-> v, exc |-> NoException]

Raised(kind, text) == [ret |-> <<>>, exc |-> Exception(kind, text, <<>>)]

\* what the try block of now() catches: except KeyError
NowCatches(kind) == kind = "KeyError"

\* the second try block of now(): the context built from the decoded body, or
\* the exception the subscripts raise, in the order the code evaluates them
NowContext(reply) ==
    CASE reply.body = "array" ->
            Raised("TypeError", "list indices must be integers")
      [] ~reply.hasMain -> Raised("KeyError", "main")
      [] ~reply.hasTemp -> Raised("KeyError", "temp")
      [] ~reply.hasWeather -> Raised("KeyError", "weather")
      [] reply.weatherLen = 0 -> Raised("IndexError", "list index out of range")
      [] ~reply.hasDescription -> Raised("KeyError", "description")
      [] ~reply.hasIcon -> Raised("KeyError", "icon")
      [] OTHER ->
            Returned([temp |-> PyInt(PyIntOfTenths(reply.temp10)),
                      icon |-> ascii_icon(reply.icon),
                      conditions |-> reply.description])

\* OpenWeatherMap.now on the reply of requests.get: the formatted line it
\* returns or the exception that leaves it
now(reply, units) ==
    IF units \notin DOMAIN MAPPING_UNITS THEN Raised("KeyError", units)
    ELSE IF reply.transport # "ok" THEN Raised("ConnectionError", "")
    ELSE IF reply.body = "notjson"
    THEN Raised("WeatherDataException", "Incorrect json response")
    ELSE LET c == NowContext(reply)
         IN  IF c.exc.kind = "none" THEN Returned(output(c.ret))
             ELSE IF NowCatches(c.exc.kind)
             THEN Raised("WeatherDataException",
                         "No conditions reported for your search")
             ELSE c

(***************************************************************************)
(* Inputs of a run: the command line and what the three collaborators      *)
(* (public-IP service, geolocation database, weather API) answer           *)
(***************************************************************************)
IpGood == <<"1", ".", "2", ".", "3", ".", "4">>

IpNewline == <<"1", ".", "2", ".", "3", ".", "4", "\n">>

IpBigOctet == <<"2", "5", "6", ".", "1", ".", "1", ".", "1">>

IpShort == <<"1", ".", "2", ".", "3">>

IpSamples == {IpGood, IpNewline, IpBigOctet, IpShort, <<>>}

\* sys.argv[1:]: -ip/--ip-address given or not, -u/--units given or not
ArgvSet ==
    [ip_given : {TRUE}, ip : IpSamples,
     units : {"absent", "celsius", "fahrenheit", "kelvin"}]
        \cup [ip_given : {FALSE}, ip : {<<>>},
              units : {"absent", "celsius", "fahrenheit", "kelvin"}]

\* the answer of requests.get(self.url) of PublicIPAddress.resolve
IpReplies ==
    [transport : {"ok"}, text : IpSamples]
        \cup [transport : {"error"}, text : {<<>>}]

\* the answer of geolite2.lookup: a match with its location, or None
GeoResults ==
    {[found |-> TRUE, location |-> <<40, -75>>],
     [found |-> TRUE, location |-> <<-33, 151>>],
     [found |-> FALSE, location |-> <<0, 0>>]}

DescLightRain == <<"l", "i", "g", "h", "t", " ", "r", "a", "i", "n">>

DescClearSky == <<"C", "l", "e", "a", "r", " ", "S", "k", "y">>

DescNumbered == <<"9", "9", " ", "M", "I", "S", "T">>

DescSamples == {DescLightRain, DescClearSky, DescNumbered}

IconSamples == {"01d", "01n", "04d", "10d", "11n", "13n", "50d", "99x"}

\* main.temp in tenths of a degree
TempSamples10 ==
    {-105, -100, -5, 0, 5, 400, 405, 410, 550, 600, 609, 610, 800, 801, 810, 1000}

\* a reply with a body of the given shape: which of main, main.temp, weather,
\* weather[0].description and weather[0].icon it holds, and len(weather)
WeatherBody(body, m, t, w, n, d, i) ==
    [transport |-> "ok", body |-> body, hasMain |-> m, hasTemp |-> t,
     temp10 |-> 550, hasWeather |-> w, weatherLen |-> n,
     hasDescription |-> d, description |-> DescLightRain,
     hasIcon |-> i, icon |-> "10d"]

\* the bodies whose shape is not the expected one
BrokenReplies ==
    {[WeatherBody("object", TRUE, TRUE, TRUE, 1, TRUE, TRUE)
          EXCEPT !.transport = "error"],
     WeatherBody("notjson", FALSE, FALSE, FALSE, 0, FALSE, FALSE),
     WeatherBody("array", FALSE, FALSE, FALSE, 0, FALSE, FALSE),
     WeatherBody("object", FALSE, FALSE, TRUE, 1, TRUE, TRUE),
     WeatherBody("object", TRUE, FALSE, TRUE, 1, TRUE, TRUE),
     WeatherBody("object", TRUE, TRUE, FALSE, 0, FALSE, FALSE),
     WeatherBody("object", TRUE, TRUE, TRUE, 0, FALSE, FALSE),
     WeatherBody("object", TRUE, TRUE, TRUE, 1, FALSE, TRUE),
     WeatherBody("object", TRUE, TRUE, TRUE, 1, TRUE, FALSE),
     WeatherBody("object", FALSE, FALSE, FALSE, 0, FALSE, FALSE)}

\* the bodies that hold main.temp, weather[0].description and weather[0].icon
FullReplies ==
    {[WeatherBody("object", TRUE, TRUE, TRUE, 1, TRUE, TRUE)
          EXCEPT !.temp10 = t, !.icon = c, !.description = d] :
        t \in TempSamples10, c \in IconSamples, d \in DescSamples}

\* the answer of requests.get(self.url, params=payload) of OpenWeatherMap.now
WeatherReplies == BrokenReplies \cup FullReplies

(***************************************************************************)
(* Weather.run, step by step                                               *)
(***************************************************************************)
None == [none |-> TRUE, s |-> <<>>]

Some(s) == [none |-> FALSE, s |-> s]

\* Python truth value of an optional string: None and "" are false
Truthy(v) == ~v.none /\ v.s # <<>>

NoParams == [lat |-> 0, lon |-> 0, units |-> ""]

Event(ev, arg, params) == [ev |-> ev, arg |-> arg, params |-> params]

\* no request to the weather API was made yet
NoResponse ==
    [WeatherBody("object", FALSE, FALSE, FALSE, 0, FALSE, FALSE)
         EXCEPT !.transport = "none"]

NoMatch == [found |-> FALSE, location |-> <<0, 0>>]

Init ==
    /\ pc = "start"
    /\ argv \in ArgvSet
    /\ args = [ip |-> None, units |-> ""]
    /\ ip_address = None
    /\ match = NoMatch
    /\ conditions = <<>>
    /\ stdout = <<>>
    /\ stderr = <<>>
    /\ exit_status = -1
    /\ raised = NoException
    /\ events = <<>>
    /\ response = NoResponse
    /\ fn_in = <<>>
    /\ fn_out = <<>>

\* an exception nobody catches: the interpreter writes the traceback to
\* standard error and exits with status 1
Uncaught(exc) ==
    /\ raised' = exc
    /\ stderr' = Append(stderr, [kind |-> "traceback", text |-> exc.kind])
    /\ exit_status' = 1
    /\ pc' = "done"

\* Arguments.parse: the options dictionary, or argparse's usage error
parse(a) ==
    IF a.units \notin {"absent", "celsius", "fahrenheit"}
    THEN [ret |-> [ip |-> None, units |-> ""],
          exc |-> Exception("SystemExit", "invalid choice", <<>>)]
    ELSE [ret |-> [ip |-> IF a.ip_given THEN Some(a.ip) ELSE None,
                   units |-> IF a.units = "absent" THEN "fahrenheit" ELSE a.units],
          exc |-> NoException]

\* args = arguments.parse(sys.argv[1:])
ParseArgs ==
    /\ pc = "start"
    /\ LET r == parse(argv)
       IN  IF r.exc.kind = "none"
           THEN /\ args' = r.ret
                /\ pc' = "parsed"
                /\ UNCHANGED <<stderr, exit_status>>
           ELSE /\ stderr' = Append(stderr, [kind |-> "usage", text |-> r.exc.text])
                /\ exit_status' = 2
                /\ pc' = "done"
                /\ UNCHANGED args
    /\ UNCHANGED <<argv, ip_address, match, conditions, stdout, raised, events,
                   response,
                   fn_in, fn_out>>

\* the test of line 211: "if not args['ip']"
UsePublicIP(a) == ~Truthy(a.ip)

\* ip_address = PublicIPAddress().resolve()
ResolvePublicIP ==
    /\ pc = "parsed"
    /\ UsePublicIP(args)
    /\ \E reply \in IpReplies :
          IF reply.transport # "ok"
          THEN /\ events' = Append(events, Event("GET_publicip", <<>>, NoParams))
               /\ Uncaught(Exception("ConnectionError", "", <<>>))
               /\ UNCHANGED ip_address
          ELSE LET v == validate(reply.text)
               IN  /\ events' = events \o
                          <<Event("GET_publicip", <<>>, NoParams),
                            Event(IF v.ret THEN "validate_ok" ELSE "validate_raise",
                                  reply.text, NoParams)>>
                   /\ IF v.ret
                      THEN /\ ip_address' = Some(reply.text)
                           /\ pc' = "resolved"
                           /\ UNCHANGED <<raised, stderr, exit_status>>
                      ELSE /\ Uncaught(v.exc)
                           /\ UNCHANGED ip_address
    /\ UNCHANGED <<argv, args, match, conditions, stdout, response, fn_in, fn_out>>

\* ip_address = args['ip']; PublicIPAddress().validate(ip_address)
ValidateSupplied ==
    /\ pc = "parsed"
    /\ ~UsePublicIP(args)
    /\ LET v == validate(args.ip.s)
       IN  /\ events' = Append(events,
                  Event(IF v.ret THEN "validate_ok" ELSE "validate_raise",
                        args.ip.s, NoParams))
           /\ ip_address' = args.ip
           /\ IF v.ret
              THEN /\ pc' = "resolved"
                   /\ UNCHANGED <<raised, stderr, exit_status>>
              ELSE Uncaught(v.exc)
    /\ UNCHANGED <<argv, args, match, conditions, stdout, response, fn_in, fn_out>>

\* the test left out: a lookup without a match goes on
LookupFails_Ignored(m) == FALSE

\* the test of line 222: "if not match"
LookupFails(m) == ~m.found

\* match = geolite2.lookup(ip_address); if not match: raise IPAddressException
Lookup ==
    /\ pc = "resolved"
    /\ \E m \in GeoResults :
          /\ match' = m
          /\ events' = Append(events, Event("lookup", ip_address.s, NoParams))
          /\ IF LookupFails(m)
             THEN Uncaught(Exception("IPAddressException", "Incorrect ip address",
                                     <<>>))
             ELSE /\ pc' = "located"
                  /\ UNCHANGED <<raised, stderr, exit_status>>
    /\ UNCHANGED <<argv, args, ip_address, conditions, stdout, response, fn_in, fn_out>>

\* the except clause left out
RunCatches_Nothing(kind) == FALSE

\* what the try block of run() catches: except WeatherDataException
RunCatches(kind) == kind = "WeatherDataException"

\* the weather query in a retry loop: a failed query is issued again
WeatherNow_Retry ==
    /\ pc = "located"
    /\ \E reply \in WeatherReplies :
          LET r == now(reply, args.units)
          IN  /\ response' = reply
              /\ events' = Append(events,
                     Event("GET_weather", <<>>,
                           [lat |-> match.location[1], lon |-> match.location[2],
                            units |-> MAPPING_UNITS[args.units]]))
              /\ IF r.exc.kind = "none"
                 THEN conditions' = r.ret /\ pc' = "formatted"
                 ELSE UNCHANGED <<conditions, pc>>
    /\ UNCHANGED <<argv, args, ip_address, match, stdout, stderr, exit_status,
                   raised, fn_in, fn_out>>

\* conditions = weather_provider.now(lat=..., lon=..., units=args['units']),
\* with the except clause of lines 231-234
WeatherNow ==
    /\ pc = "located"
    /\ \E reply \in WeatherReplies :
          LET r == now(reply, args.units)
          IN  /\ response' = reply
              /\ events' = Append(events,
                     Event("GET_weather", <<>>,
                           [lat |-> match.location[1], lon |-> match.location[2],
                            units |-> MAPPING_UNITS[args.units]]))
              /\ IF r.exc.kind = "none"
                 THEN /\ conditions' = r.ret
                      /\ pc' = "formatted"
                      /\ UNCHANGED <<raised, stderr, exit_status>>
                 ELSE IF RunCatches(r.exc.kind)
                 THEN /\ stderr' = Append(stderr,
                             [kind |-> "apology", text |-> r.exc.text])
                      /\ exit_status' = 1
                      /\ pc' = "done"
                      /\ raised' = r.exc
                      /\ UNCHANGED conditions
                 ELSE /\ Uncaught(r.exc)
                      /\ UNCHANGED conditions
    /\ UNCHANGED <<argv, args, ip_address, match, stdout, fn_in, fn_out>>

\* puts(getattr(colored, get_temperature_color(conditions))(conditions))
PrintConditions ==
    /\ pc = "formatted"
    /\ stdout' = Append(stdout, [text |-> conditions,
                                 color |-> get_temperature_color(conditions)])
    /\ exit_status' = 0
    /\ pc' = "done"
    /\ UNCHANGED <<argv, args, ip_address, match, conditions, stderr, raised,
                   events, response, fn_in, fn_out>>

Next ==
    \/ ParseArgs
    \/ ResolvePublicIP
    \/ ValidateSupplied
    \/ Lookup
    \/ WeatherNow
    \/ PrintConditions

Spec == Init /\ [][Next]_vars

(***************************************************************************)
(* Properties of a run                                                     *)
(***************************************************************************)
HasEvent(ev) == \E k \in 1..Len(events) : events[k].ev = ev

CountEvent(ev) == Cardinality({k \in 1..Len(events) : events[k].ev = ev})

\* a decoded body in which main.temp, weather[0].description or
\* weather[0].icon is absent
KeysAbsent(r) ==
    /\ r.body = "object"
    /\ \/ ~r.hasMain
       \/ ~r.hasTemp
       \/ ~r.hasWeather
       \/ r.weatherLen = 0
       \/ ~r.hasDescription
       \/ ~r.hasIcon

\* C1: whenever the weather API answered with a body that is not valid JSON,
\* or with a JSON object in which main.temp, weather[0].description or
\* weather[0].icon is absent (no `main`, no `weather`, or an empty `weather`
\* array included), the exception that leaves now() is WeatherDataException.
C1_BadResponseAlwaysWeatherDataException ==
    (response.transport = "ok" /\ (response.body = "notjson" \/ KeysAbsent(response)))
        => raised.kind = "WeatherDataException"

\* C3: the geolocation lookup is invoked only with a string the validator
\* accepted before, the weather query is issued only after the lookup returned
\* a match, and a failed validation or a lookup without a match ends the run
\* with IPAddressException, no weather query and nothing on standard output.
C3_RejectedBeforeUse ==
    /\ \A k \in 1..Len(events) :
          events[k].ev = "lookup" =>
              \E j \in 1..(k - 1) :
                  events[j].ev = "validate_ok" /\ events[j].arg = events[k].arg
    /\ \A k \in 1..Len(events) :
          events[k].ev = "GET_weather" =>
              /\ match.found
              /\ \E j \in 1..(k - 1) : events[j].ev = "lookup"
    /\ (HasEvent("validate_raise") \/ (HasEvent("lookup") /\ ~match.found)) =>
          /\ pc = "done"
          /\ raised.kind = "IPAddressException"
          /\ ~HasEvent("GET_weather")
          /\ stdout = <<>>

\* a run on the public-IP path whose lookup found no match
C3_Witness ==
    /\ Len(events) >= 3
    /\ events[1].ev = "GET_publicip"
    /\ HasEvent("validate_ok")
    /\ HasEvent("lookup")
    /\ ~match.found
    /\ raised.kind = "IPAddressException"

\* C4: when now() raises WeatherDataException the run ends with exactly one
\* apology line on standard error, nothing on standard output and exit status
\* 1, and the formatted line is never coloured or printed.
C4_WeatherDataExceptionHandled ==
    raised.kind = "WeatherDataException" =>
        /\ pc = "done"
        /\ Len(stderr) = 1
        /\ stderr[1].kind = "apology"
        /\ stderr[1].text = raised.text
        /\ stdout = <<>>
        /\ conditions = <<>>
        /\ exit_status = 1

\* a run whose weather body had no `main`
C4_Witness ==
    /\ response.transport = "ok"
    /\ response.body = "object"
    /\ ~response.hasMain
    /\ raised.kind = "WeatherDataException"
    /\ exit_status = 1

\* C5: a run issues at most one GET to the public-IP service and at most one
\* to the weather API, whatever its outcome, and the lookup issues none.
C5_AtMostTwoRequests ==
    /\ CountEvent("GET_publicip") <= 1
    /\ CountEvent("GET_weather") <= 1
    /\ CountEvent("GET_publicip") + CountEvent("GET_weather")
           = Len(events) - CountEvent("lookup") - CountEvent("validate_ok")
                 - CountEvent("validate_raise")
    /\ pc = "done" => ~ENABLED Next

\* a finished run that made both requests, the second of which failed
C5_Witness ==
    /\ pc = "done"
    /\ CountEvent("GET_publicip") = 1
    /\ CountEvent("GET_weather") = 1
    /\ response.transport = "error"
    /\ raised.kind = "ConnectionError"

\* C6: the public IP is resolved exactly when --ip-address is absent from the
\* command line; when the option is supplied, with any string value, no
\* public-IP request is made and the supplied string is the one validated and
\* then looked up.
C6_ResolveExactlyWhenAbsent ==
    pc \in {"resolved", "located", "formatted"} \/ (pc = "done" /\ events # <<>>) =>
        /\ HasEvent("GET_publicip") <=> ~argv.ip_given
        /\ argv.ip_given =>
              /\ events[1].ev \in {"validate_ok", "validate_raise"}
              /\ events[1].arg = argv.ip
              /\ \A k \in 1..Len(events) :
                    events[k].ev = "lookup" => events[k].arg = argv.ip

\* the icon symbol the specification gives a condition code: one of the four
\* symbols, or the empty icon for an unlisted code
SpecIconSymbol(code) ==
    CASE code \in {"01d", "01n"} -> <<"U2600">>
      [] code \in {"02d", "02n", "03d", "03n", "04d", "04n"} -> <<"U2601">>
      [] code \in {"09d", "09n", "10d", "10n", "11d", "11n"} -> <<"U2602">>
      [] code \in {"13d", "13n"} -> <<"U2603">>
      [] OTHER -> <<>>

\* the colour band of an integer temperature
SpecBand(t) ==
    CASE t <= 40 -> "cyan"
      [] t > 40 /\ t <= 60 -> "blue"
      [] t > 60 /\ t <= 80 -> "yellow"
      [] t > 80 -> "red"

\* the line the specification describes for a full weather body
SpecLine(r) ==
    <<"T", "o", "d", "a", "y", " ", "i", "t", "'", "s", " ">>
        \o IntToChars(PyIntOfTenths(r.temp10))
        \o <<"U00B0", " ">>
        \o SpecIconSymbol(r.icon)
        \o <<" ", "a", "n", "d", " ">>
        \o Lower(r.description)

\* C9: a finished run whose address validated, whose lookup found a match and
\* whose weather body holds main.temp, weather[0].description and
\* weather[0].icon has printed exactly one line, "Today it's {temperature}°
\* {iconSymbol} and {description lowercased}", in the colour band of that
\* temperature, nothing on standard error, and has exit status 0.
C9_EndToEnd ==
    (pc = "done" /\ response \in FullReplies) =>
        /\ stdout = <<[text |-> SpecLine(response),
                       color |-> SpecBand(PyIntOfTenths(response.temp10))]>>
        /\ stderr = <<>>
        /\ exit_status = 0

(***************************************************************************)
(* The pure functions on bounded inputs                                    *)
(***************************************************************************)
runVars == <<argv, args, ip_address, match, conditions, stdout, stderr,
             exit_status, raised, events, response>>

\* no run in progress
NoRun ==
    /\ argv = [ip_given |-> FALSE, ip |-> <<>>, units |-> "absent"]
    /\ args = [ip |-> None, units |-> ""]
    /\ ip_address = None
    /\ match = NoMatch
    /\ conditions = <<>>
    /\ stdout = <<>>
    /\ stderr = <<>>
    /\ exit_status = -1
    /\ raised = NoException
    /\ events = <<>>
    /\ response = NoResponse

\* the largest absolute temperature of the inputs
MaxT == 100

\* the largest number of dot-separated segments of an address
MaxSegs == 5

RECURSIVE Join(_)
\* ".".join(segs)
Join(segs) ==
    IF Len(segs) = 0 THEN <<>>
    ELSE IF Len(segs) = 1 THEN segs[1]
    ELSE Join(SubSeq(segs, 1, Len(segs) - 1)) \o <<".">> \o segs[Len(segs)]

\* segments for the first place of an address
FirstOctets ==
    {<<"0">>, <<"9">>, <<"2", "5">>, <<"0", "0", "1">>, <<"1", "9", "9">>,
     <<"2", "4", "9">>, <<"2", "5", "5">>, <<"2", "5", "6">>, <<"2", "6", "0">>,
     <<"3", "0", "0">>, <<"1", "a">>, <<"-", "1">>, <<>>}

\* segments for the other places
RestOctets == {<<"0">>, <<"2", "5", "5">>, <<"2", "5", "6">>, <<"a">>}

\* what may follow the last segment
IpSuffixes == {<<>>, <<"\n">>, <<"\n", "\n">>, <<" ">>, <<"a">>}

IpInputs ==
    {[segs |-> <<f>> \o r, suffix |-> x] :
        f \in FirstOctets,
        r \in UNION {[1..n -> RestOctets] : n \in 0..(MaxSegs - 1)},
        x \in IpSuffixes}

InitValidate ==
    /\ pc = "input"
    /\ fn_in \in IpInputs
    /\ fn_out = <<>>
    /\ NoRun

\* PublicIPAddress.validate(ip_address) on the assembled string
Validate ==
    /\ pc = "input"
    /\ fn_out' = validate(Join(fn_in.segs) \o fn_in.suffix)
    /\ pc' = "returned"
    /\ UNCHANGED <<fn_in, runVars>>

NextValidate == Validate

SpecValidate == InitValidate /\ [][NextValidate]_vars

\* a segment that is the decimal numeral of an integer in [0,255]
IsOctet(seg) ==
    /\ Len(seg) \in 1..3
    /\ \A k \in 1..Len(seg) : IsDigit(seg[k])
    /\ CharsToNat(seg) <= 255

\* C2: validate returns true exactly for the strings A.B.C.D with four
\* segments, each an integer in [0,255], and nothing else in the string;
\* every other string raises IPAddressException.
C2_ValidateExactlyDottedQuad ==
    pc = "returned" =>
        IF /\ Len(fn_in.segs) = 4
           /\ \A k \in 1..4 : IsOctet(fn_in.segs[k])
           /\ fn_in.suffix = <<>>
        THEN fn_out.ret /\ fn_out.exc.kind = "none"
        ELSE ~fn_out.ret /\ fn_out.exc.kind = "IPAddressException"

\* text before the number: no digit in it, and no "-" at its end
ColorPrefixes ==
    {<<>>, <<"a">>, <<"-", " ">>, <<"i", "t", "'", "s", " ">>, <<"-", "-", "x">>}

\* text before a negative number that ends with a "-" of its own
SignPrefixes == {<<"-">>, <<"a", "-">>}

\* text after the number: empty, or starting with a character that is no digit
ColorSuffixes ==
    {<<>>, <<"U00B0", " ", "0">>, <<"-", "9", "9">>, <<".", "5">>, <<" ", "8", "1">>}

\* endings of a string without any digit
NoDigitSuffixes == {<<>>, <<"-">>, <<"U00B0", " ", "-", "x">>}

LeadingZeros == {<<>>, <<"0">>, <<"0", "0">>}

ColorInputs ==
    [has_number : {TRUE}, prefix : ColorPrefixes, neg : BOOLEAN, n : 0..MaxT,
     lead : LeadingZeros, suffix : ColorSuffixes]
        \cup [has_number : {TRUE}, prefix : SignPrefixes, neg : {TRUE}, n : 0..MaxT,
              lead : LeadingZeros, suffix : ColorSuffixes]
        \cup [has_number : {FALSE}, prefix : ColorPrefixes, neg : {FALSE}, n : {0},
              lead : {<<>>}, suffix : NoDigitSuffixes]

\* the string assembled from an input
ColorString(in) ==
    IF in.has_number
    THEN in.prefix \o (IF in.neg THEN <<"-">> ELSE <<>>) \o in.lead
             \o NatToChars(in.n) \o in.suffix
    ELSE in.prefix \o in.suffix

InitColor ==
    /\ pc = "input"
    /\ fn_in \in ColorInputs
    /\ fn_out = <<>>
    /\ NoRun

\* get_temperature_color(conditions) on the assembled string
Color ==
    /\ pc = "input"
    /\ fn_out' = get_temperature_color(ColorString(fn_in))
    /\ pc' = "returned"
    /\ UNCHANGED <<fn_in, runVars>>

NextColor == Color

SpecColor == InitColor /\ [][NextColor]_vars

\* the first signed integer of the string assembled from an input
FirstInteger(in) == IF in.neg THEN -in.n ELSE in.n

\* C7: get_temperature_color returns the band of the first signed integer t of
\* the string (cyan up to 40, blue up to 60, yellow up to 80, red above), and
\* white when the string holds no integer; 40 is cyan, 41 blue, 60 blue, 61
\* yellow, 80 yellow, 81 red and every negative temperature cyan.
C7_ColorBands ==
    pc = "returned" =>
        IF ~fn_in.has_number THEN fn_out = "white"
        ELSE LET t == FirstInteger(fn_in)
             IN  /\ fn_out = SpecBand(t)
                 /\ t = 40 => fn_out = "cyan"
                 /\ t = 41 => fn_out = "blue"
                 /\ t = 60 => fn_out = "blue"
                 /\ t = 61 => fn_out = "yellow"
                 /\ t = 80 => fn_out = "yellow"
                 /\ t = 81 => fn_out = "red"
                 /\ t < 0 => fn_out = "cyan"

\* the boundary 60 found behind a prefix and before another number
C7_Witness ==
    /\ pc = "returned"
    /\ fn_in.has_number
    /\ fn_in.prefix = <<"-", " ">>
    /\ FirstInteger(fn_in) = 60
    /\ fn_in.suffix = <<" ", "8", "1">>
    /\ fn_out = "blue"

\* every code of the table and some that are not in it
CodeSamples == DOMAIN IconTable \cup {"50d", "99x", ""}

FormatInputs == [temp : (-MaxT)..MaxT, code : CodeSamples, conditions : DescSamples]

InitFormat ==
    /\ pc = "input"
    /\ fn_in \in FormatInputs
    /\ fn_out = [icon |-> PyUnicode(<<>>), line |-> <<>>, color |-> ""]
    /\ NoRun

\* context['icon'] = OpenWeatherMap.ascii_icon(weather['weather'][0]['icon'])
MapIcon ==
    /\ pc = "input"
    /\ fn_out' = [fn_out EXCEPT !.icon = ascii_icon(fn_in.code)]
    /\ pc' = "icon"
    /\ UNCHANGED <<fn_in, runVars>>

\* self.formatter.output(context)
Format ==
    /\ pc = "icon"
    /\ fn_out' = [fn_out EXCEPT !.line =
                      output([temp |-> PyInt(fn_in.temp), icon |-> fn_out.icon,
                              conditions |-> fn_in.conditions])]
    /\ pc' = "line"
    /\ UNCHANGED <<fn_in, runVars>>

\* get_temperature_color(conditions) on the formatted line
ColorOfLine ==
    /\ pc = "line"
    /\ fn_out' = [fn_out EXCEPT !.color = get_temperature_color(fn_out.line)]
    /\ pc' = "returned"
    /\ UNCHANGED <<fn_in, runVars>>

NextFormat ==
    \/ MapIcon
    \/ Format
    \/ ColorOfLine

SpecFormat == InitFormat /\ [][NextFormat]_vars

\* C8: ascii_icon maps 01d/01n to sun, 02d..04n to clouds, 09d..11n to rain,
\* 13d/13n to snow and every unlisted code to the default empty icon, so the
\* icon of the context is always one of sun, clouds, rain, snow, empty.
C8_IconAlwaysSymbol ==
    pc # "input" =>
        /\ fn_out.icon = PyUnicode(SpecIconSymbol(fn_in.code))
        /\ fn_out.icon \in {PyUnicode(<<SUN>>), PyUnicode(<<CLOUDS>>),
                            PyUnicode(<<RAIN>>), PyUnicode(<<SNOW>>),
                            PyUnicode(<<>>)}

\* C10: for every integer temperature, icon value and condition text, the
\* colour of the formatted line is the band of the temperature itself, and is
\* never white: the first signed integer of the line is the temperature.
C10_ReparseLosesNothing ==
    pc = "returned" =>
        /\ fn_out.color = SpecBand(fn_in.temp)
        /\ fn_out.color # "white"

\* a negative temperature beside an icon and a condition text that hold digits
C10_Witness ==
    /\ pc = "returned"
    /\ fn_in.temp = -81
    /\ fn_out.icon = PyInt(0)
    /\ fn_in.conditions = DescNumbered
    /\ fn_out.color = "cyan"

====
